---- MODULE Spec2Model ----
(***************************************************************************)
(* GalMag field adapters of imagine_galmag/field.py:                       *)
(* GalMagMagneticFieldBase, GalMagDiskField and GalMagHaloField.           *)
(*                                                                         *)
(* One adapter instance is modelled: its construction, the caller's edits  *)
(* of the parameter mapping the adapter shares with the caller, and        *)
(* compute_field.  The wrapped generator (galmag) and the unit library     *)
(* (astropy) are collaborators: the generator either returns a native      *)
(* field object or raises, a unit conversion either yields the number in   *)
(* the target unit or raises.  The framework's base class keeps the        *)
(* mapping it is constructed with as self.parameters, the very dict the    *)
(* caller holds; the adapter reads and writes it with in, [], []= and del. *)
(***************************************************************************)
EXTENDS Integers, Sequences, FiniteSets, TLC

VARIABLES
    pc,                 \* "new", "built", or "construction_failed"
    variant,            \* "disk" or "halo": the class of the instance
    keep_galmag_field,  \* self.keep_galmag_field
    number_of_modes,    \* self._number_of_modes (disk)
    parameters,         \* self.parameters, the mapping shared with the caller
    field_options,      \* self._field_options
    galmag,             \* self.galmag, the cached native field or None
    gen_calls,          \* invocations of galmag_gen.get_B_field so far
    gen_returns,        \* those of them that returned a native field
    last,               \* the compute_field call that has just ended
    edits,              \* changes the caller has made to the mapping
    calls               \* compute_field calls so far

vars == <<pc, variant, keep_galmag_field, number_of_modes, parameters,
          field_options, galmag, gen_calls, gen_returns, last, edits, calls>>

(***************************************************************************)
(* Bounds of the model.                                                    *)
(***************************************************************************)
\* largest number_of_modes passed to the disk constructor
MaxModes == 2
\* changes (assignments and removals) the caller makes in the shared mapping
MaxEdits == 2
\* compute_field calls on the instance
MaxCalls == 2

(***************************************************************************)
(* Values held by a mapping.  Every value is a record of the same shape:   *)
(*   quantity  an astropy Quantity, n in unit                              *)
(*   number    a bare number n                                             *)
(*   array     a numpy array, data                                         *)
(*   float     the float num/den * 10^e * KPC^p, data = <<num,den,e,p>>,   *)
(*             KPC the number of centimetres in a kiloparsec               *)
(*   option    a switch or profile function recorded at construction       *)
(***************************************************************************)
Quantity(n, u) == [kind |-> "quantity", n |-> n, unit |-> u, data |-> <<>>]
Number(n) == [kind |-> "number", n |-> n, unit |-> "", data |-> <<>>]
Array(s) == [kind |-> "array", n |-> 0, unit |-> "", data |-> s]
Float(num, den, e, p) ==
    [kind |-> "float", n |-> 0, unit |-> "", data |-> <<num, den, e, p>>]
Option(tag) == [kind |-> "option", n |-> 0, unit |-> tag, data |-> <<>>]

EmptyMap == [k \in {} |-> Number(0)]

Put(m, k, v) == [x \in DOMAIN m \cup {k} |-> IF x = k THEN v ELSE m[x]]
Del(m, k) == [x \in DOMAIN m \ {k} |-> m[x]]
\* dict.update: entries of o replace entries of m of the same name
Update(m, o) ==
    [x \in DOMAIN m \cup DOMAIN o |-> IF x \in DOMAIN o THEN o[x] ELSE m[x]]

(***************************************************************************)
(* Units: physical dimension <<length, time, field>> and the size of the   *)
(* unit in CGS, 10^e * KPC^p.                                              *)
(***************************************************************************)
Units == {"kpc", "Mpc", "km/s", "cm2/s", "1/s", "uG", "mG", "s"}

UnitDim(u) ==
    CASE u = "kpc" -> <<1, 0, 0>>
      [] u = "Mpc" -> <<1, 0, 0>>
      [] u = "km/s" -> <<1, -1, 0>>
      [] u = "cm2/s" -> <<2, -1, 0>>
      [] u = "1/s" -> <<0, -1, 0>>
      [] u = "uG" -> <<0, 0, 1>>
      [] u = "mG" -> <<0, 0, 1>>
      [] u = "s" -> <<0, 1, 0>>

UnitSize(u) ==
    CASE u = "kpc" -> <<0, 1>>
      [] u = "Mpc" -> <<3, 1>>
      [] u = "km/s" -> <<5, 0>>
      [] u = "cm2/s" -> <<0, 0>>
      [] u = "1/s" -> <<0, 0>>
      [] u = "uG" -> <<-6, 0>>
      [] u = "mG" -> <<-3, 0>>
      [] u = "s" -> <<0, 0>>

RECURSIVE Pow10(_)
Pow10(e) == IF e = 0 THEN 1 ELSE 10 * Pow10(e - 1)

(***************************************************************************)
(* (pval << unit).value                                                    *)
(* A bare number is taken to be in the unit already; a Quantity is         *)
(* converted, which fails when the dimensions differ.                      *)
(***************************************************************************)
Convertible(v, u) ==
    v.kind = "quantity" =>
        /\ UnitDim(v.unit) = UnitDim(u)
        /\ UnitSize(v.unit)[2] = UnitSize(u)[2]
        /\ UnitSize(v.unit)[1] >= UnitSize(u)[1]

\* ToValue without the change of unit
ToValueUnscaled(v, u) == IF v.kind = "quantity" THEN Number(v.n) ELSE v

ToValue(v, u) ==
    IF v.kind = "quantity"
    THEN Number(v.n * Pow10(UnitSize(v.unit)[1] - UnitSize(u)[1]))
    ELSE v

(***************************************************************************)
(* Class attributes.                                                       *)
(***************************************************************************)
DISK_PARAMETER_NAMES ==
    <<"disk_height", "disk_radius", "disk_regularization_radius",
      "disk_ref_r_cylindrical", "disk_shear_normalization",
      "disk_turbulent_diffusivity", "disk_alpha_effect">>

DISK_PARAMETER_UNITS ==
    [k \in {DISK_PARAMETER_NAMES[i] : i \in DOMAIN DISK_PARAMETER_NAMES} |->
        CASE k = "disk_height" -> "kpc"
          [] k = "disk_radius" -> "kpc"
          [] k = "disk_regularization_radius" -> "kpc"
          [] k = "disk_ref_r_cylindrical" -> "kpc"
          [] k = "disk_shear_normalization" -> "1/s"
          [] k = "disk_turbulent_diffusivity" -> "cm2/s"
          [] k = "disk_alpha_effect" -> "km/s"]

HALO_PARAMETER_NAMES ==
    <<"halo_radius", "halo_ref_radius", "halo_ref_z", "halo_ref_Bphi",
      "halo_rotation_characteristic_radius",
      "halo_rotation_characteristic_height", "halo_rotation_normalization",
      "halo_turbulent_diffusivity", "halo_alpha_effect">>

HALO_PARAMETER_UNITS ==
    [k \in {HALO_PARAMETER_NAMES[i] : i \in DOMAIN HALO_PARAMETER_NAMES} |->
        CASE k = "halo_radius" -> "kpc"
          [] k = "halo_ref_radius" -> "kpc"
          [] k = "halo_ref_z" -> "kpc"
          [] k = "halo_ref_Bphi" -> "uG"
          [] k = "halo_rotation_characteristic_radius" -> "kpc"
          [] k = "halo_rotation_characteristic_height" -> "kpc"
          [] k = "halo_rotation_normalization" -> "km/s"
          [] k = "halo_turbulent_diffusivity" -> "cm2/s"
          [] k = "halo_alpha_effect" -> "km/s"]

Range(s) == {s[i] : i \in DOMAIN s}

\* 'mode_{0:d}'.format(i)
ModeName(i) == "mode_" \o ToString(i)

\* 'mode_' in k, for the names a mapping of the model can hold
IsModeKey(k) == \E i \in 1..(MaxModes + 1) : k = ModeName(i)
\* int(k[5:])
ModeIndex(k) == CHOOSE i \in 1..(MaxModes + 1) : k = ModeName(i)

\* max([...]) of a non-empty collection
SetMax(S) == CHOOSE m \in S : \A x \in S : x <= m

\* number_of_modes=None, the default of the disk constructor
Unspecified == -1

\* self.galmag = None: no cached native field.  A native field object is
\* known by the generator call that returned it.
None == [id |-> 0]

\* GalMagDiskField.parameter_names / the framework's default for the halo
parameter_names(v, N) ==
    IF v = "disk"
    THEN Range(DISK_PARAMETER_NAMES) \cup {ModeName(i) : i \in 1..N}
    ELSE Range(HALO_PARAMETER_NAMES)

\* parameter_units: the class table, for the disk with mode_i -> microgauss
parameter_units(v, N) ==
    IF v = "disk"
    THEN Update([k \in {ModeName(i) : i \in 1..N} |-> "uG"],
                DISK_PARAMETER_UNITS)
    ELSE HALO_PARAMETER_UNITS

(***************************************************************************)
(* The options recorded by the constructors, at their defaults.            *)
(***************************************************************************)
DiskFieldOptions ==
    [k \in {"disk_shear_function", "disk_rotation_function",
            "disk_height_function", "disk_field_decay",
            "disk_newman_boundary_condition_envelope"} |->
        CASE k = "disk_shear_function" ->
                 Option("Clemens_Milky_Way_shear_rate")
          [] k = "disk_rotation_function" ->
                 Option("Clemens_Milky_Way_rotation_curve")
          [] k = "disk_height_function" -> Option("exponential_scale_height")
          [] k = "disk_field_decay" -> Option("True")
          [] k = "disk_newman_boundary_condition_envelope" -> Option("False")]

HaloFieldOptions ==
    [k \in {"halo_n_free_decay_modes", "halo_growing_mode_only",
            "halo_compute_only_one_quadrant", "halo_Galerkin_ngrid",
            "halo_symmetric_field", "halo_dynamo_type",
            "halo_rotation_function", "halo_alpha_function"} |->
        CASE k = "halo_n_free_decay_modes" -> Option("4")
          [] k = "halo_growing_mode_only" -> Option("False")
          [] k = "halo_compute_only_one_quadrant" -> Option("True")
          [] k = "halo_Galerkin_ngrid" -> Option("501")
          [] k = "halo_symmetric_field" -> Option("True")
          [] k = "halo_dynamo_type" -> Option("alpha2-omega")
          [] k = "halo_rotation_function" -> Option("simple_V")
          [] k = "halo_alpha_function" -> Option("simple_alpha")]

(***************************************************************************)
(* Arithmetic of the derived parameters.  A term is a number or a Quantity *)
(* num/den of dimension dim and unit size 10^e * KPC^p; isq tells whether  *)
(* it is a Quantity (only a Quantity has to_value).                        *)
(***************************************************************************)
RECURSIVE GCD(_, _)
GCD(a, b) == IF b = 0 THEN a ELSE GCD(b, a % b)

Abs(a) == IF a < 0 THEN -a ELSE a

Term(v) ==
    IF v.kind = "quantity"
    THEN [isq |-> TRUE, num |-> v.n, den |-> 1, dim |-> UnitDim(v.unit),
          size |-> UnitSize(v.unit)]
    ELSE [isq |-> FALSE, num |-> v.n, den |-> 1, dim |-> <<0, 0, 0>>,
          size |-> <<0, 0>>]

Mul(x, y) ==
    [isq |-> x.isq \/ y.isq, num |-> x.num * y.num, den |-> x.den * y.den,
     dim |-> [i \in 1..3 |-> x.dim[i] + y.dim[i]],
     size |-> [i \in 1..2 |-> x.size[i] + y.size[i]]]

Div(x, y) ==
    [isq |-> x.isq \/ y.isq, num |-> x.num * y.den, den |-> x.den * y.num,
     dim |-> [i \in 1..3 |-> x.dim[i] - y.dim[i]],
     size |-> [i \in 1..2 |-> x.size[i] - y.size[i]]]

Neg(x) == [x EXCEPT !.num = -x.num]

\* a float in lowest terms
Reduced(num, den, e, p) ==
    LET g == GCD(Abs(num), Abs(den))
    IN  Float(num \div g, den \div g, e, p)

\* x.to_value(u.dimensionless_unscaled): "ok", or the exception raised
ToValueError(x) ==
    IF ~x.isq THEN "AttributeError"
    ELSE IF x.dim # <<0, 0, 0>> THEN "UnitConversionError"
    ELSE "ok"

to_value(x) == Reduced(x.num, x.den, x.size[1], x.size[2])

\* product of two floats
FloatMul(f, g) ==
    Reduced(f.data[1] * g.data[1], f.data[2] * g.data[2],
            f.data[3] + g.data[3], f.data[4] + g.data[4])

(***************************************************************************)
(* GalMagMagneticFieldBase.compute_field.  p is self.parameters on entry,  *)
(* gen_ok whether get_B_field returns (TRUE) or raises (FALSE).  The       *)
(* result tells how the call ends, the mapping handed to the generator,    *)
(* the number of generator invocations, the native object the returned     *)
(* array is filled from, and the cache afterwards.                         *)
(***************************************************************************)
\* ConvertedParameters keeping only the names of the unit table
ConvertedDeclaredOnly(p, units) ==
    [k \in DOMAIN p \cap DOMAIN units |-> ToValue(p[k], units[k])]

ConvertedParameters(p, units) ==
    [k \in DOMAIN p |->
        IF k \in DOMAIN units THEN ToValue(p[k], units[k]) ELSE p[k]]

\* MergedParameters with the caller's entry winning over the option
MergedCallerWins(p, units, options) ==
    Update(options, ConvertedParameters(p, units))

MergedParameters(p, units, options) ==
    Update(ConvertedParameters(p, units), options)

\* CacheAfter without the test of the keep flag
CacheAlways(keep, galmag_B, cache) == galmag_B

\* if self.keep_galmag_field: self.galmag = galmag_B
CacheAfter(keep, galmag_B, cache) == IF keep THEN galmag_B ELSE cache

BaseComputeField(p, units, options, cache, keep, next_id, gen_ok) ==
    IF cache # None
    THEN [outcome |-> "ok", args |-> EmptyMap, invoked |-> 0,
          field |-> cache, galmag |-> cache]
    ELSE IF \E k \in DOMAIN p \cap DOMAIN units : ~Convertible(p[k], units[k])
    THEN [outcome |-> "UnitConversionError", args |-> EmptyMap,
          invoked |-> 0, field |-> None, galmag |-> cache]
    ELSE LET args == MergedParameters(p, units, options)
             galmag_B == [id |-> next_id]
         IN  IF ~gen_ok
             THEN [outcome |-> "GeneratorError", args |-> args,
                   invoked |-> 1, field |-> None, galmag |-> cache]
             ELSE [outcome |-> "ok", args |-> args, invoked |-> 1,
                   field |-> galmag_B,
                   galmag |-> CacheAfter(keep, galmag_B, cache)]

\* Raised with the cache looked up before anything is read
RaisedUnlessCached(exc, p, cache) ==
    [outcome |-> IF cache # None THEN "ok" ELSE exc, args |-> EmptyMap,
     invoked |-> 0, field |-> cache, galmag |-> cache, parameters |-> p]

\* a call that ends before the superclass method is entered
Raised(exc, p, cache) ==
    [outcome |-> exc, args |-> EmptyMap, invoked |-> 0, field |-> None,
     galmag |-> cache, parameters |-> p]

\* the result of the superclass method, with self.parameters afterwards
Returned(r, p) ==
    [outcome |-> r.outcome, args |-> r.args, invoked |-> r.invoked,
     field |-> r.field, galmag |-> r.galmag, parameters |-> p]

(***************************************************************************)
(* GalMagDiskField.compute_field                                           *)
(***************************************************************************)
\* DiskModeEntry without the zero for a missing mode
DiskModeEntryNoFill(p, i) ==
    IF ModeName(i) \in DOMAIN p THEN ToValue(p[ModeName(i)], "uG").n ELSE 1

\* the entry of disk_mode_norm for mode_i
DiskModeEntry(p, i) ==
    IF ModeName(i) \in DOMAIN p THEN ToValue(p[ModeName(i)], "uG").n ELSE 0

DiskModeNorm(p, N) == [i \in 1..N |-> DiskModeEntry(p, i)]

DiskInputs ==
    {"disk_height", "disk_shear_normalization", "disk_alpha_effect",
     "disk_turbulent_diffusivity"}

DiskTemporaries ==
    {"disk_modes_normalization", "disk_turbulent_induction",
     "disk_dynamo_number"}

DiskComputeField(p, N, options, cache, keep, next_id, gen_ok) ==
    IF \E i \in 1..N :
          ModeName(i) \in DOMAIN p /\ ~Convertible(p[ModeName(i)], "uG")
    THEN Raised("UnitConversionError", p, cache)
    ELSE
    LET p1 == Put(p, "disk_modes_normalization", Array(DiskModeNorm(p, N)))
    IN  IF ~(DiskInputs \subseteq DOMAIN p1)
        THEN Raised("KeyError", p1, cache)
        ELSE
        LET h == Term(p1["disk_height"])
            S == Term(p1["disk_shear_normalization"])
            alpha == Term(p1["disk_alpha_effect"])
            beta == Term(p1["disk_turbulent_diffusivity"])
            Ralpha == Div(Mul(h, alpha), beta)
            p2 == Put(p1, "disk_turbulent_induction", to_value(Ralpha))
            Romega == Div(Mul(Mul(h, h), S), beta)
            p3 == Put(p2, "disk_dynamo_number",
                      FloatMul(to_value(Ralpha), to_value(Romega)))
            r == BaseComputeField(p3, parameter_units("disk", N), options,
                                  cache, keep, next_id, gen_ok)
        IN  IF ToValueError(Ralpha) # "ok"
            THEN Raised(ToValueError(Ralpha), p1, cache)
            ELSE IF ToValueError(Romega) # "ok"
            THEN Raised(ToValueError(Romega), p2, cache)
            ELSE IF r.outcome # "ok"
            THEN Returned(r, p3)
            ELSE Returned(r,
                   Del(Del(Del(p3, "disk_modes_normalization"),
                           "disk_dynamo_number"),
                       "disk_turbulent_induction"))

(***************************************************************************)
(* GalMagHaloField.compute_field                                           *)
(***************************************************************************)
HaloInputs ==
    {"halo_radius", "halo_rotation_normalization",
     "halo_turbulent_diffusivity", "halo_alpha_effect"}

HaloTemporaries == {"halo_turbulent_induction", "halo_rotation_induction"}

HaloComputeField(p, options, cache, keep, next_id, gen_ok) ==
    IF ~(HaloInputs \subseteq DOMAIN p)
    THEN Raised("KeyError", p, cache)
    ELSE
    LET r_ == Term(p["halo_radius"])
        V == Term(p["halo_rotation_normalization"])
        beta == Term(p["halo_turbulent_diffusivity"])
        alpha == Term(p["halo_alpha_effect"])
        Ralpha == Div(Mul(r_, alpha), beta)
        p1 == Put(p, "halo_turbulent_induction", to_value(Ralpha))
        Romega == Div(Mul(Neg(r_), V), beta)
        p2 == Put(p1, "halo_rotation_induction", to_value(Romega))
        r == BaseComputeField(p2, parameter_units("halo", 0), options,
                              cache, keep, next_id, gen_ok)
    IN  IF ToValueError(Ralpha) # "ok"
        THEN Raised(ToValueError(Ralpha), p, cache)
        ELSE IF ToValueError(Romega) # "ok"
        THEN Raised(ToValueError(Romega), p1, cache)
        ELSE IF r.outcome # "ok"
        THEN Returned(r, p2)
        ELSE Returned(r, Del(Del(p2, "halo_rotation_induction"),
                             "halo_turbulent_induction"))

(***************************************************************************)
(* Inputs of the model: the mappings a caller constructs an adapter with   *)
(* and the values a caller stores in the mapping afterwards.               *)
(***************************************************************************)
\* every declared required parameter, 1 in its declared unit
Skeleton(v) ==
    IF v = "disk"
    THEN [k \in DOMAIN DISK_PARAMETER_UNITS |->
             Quantity(1, DISK_PARAMETER_UNITS[k])]
    ELSE [k \in DOMAIN HALO_PARAMETER_UNITS |->
             Quantity(1, HALO_PARAMETER_UNITS[k])]

\* the mode_i entries of the initial mapping: the first, and one beyond
\* every number_of_modes the constructor is given
InitialModes == {1, MaxModes + 1}

\* the default parameters=dict(), and the skeleton (with modes for the disk)
InitialMappings(v) ==
    IF v = "disk"
    THEN {EmptyMap,
          Update(Skeleton(v),
                 [k \in {ModeName(i) : i \in InitialModes} |->
                     Quantity(1, "uG")])}
    ELSE {EmptyMap, Skeleton(v)}

\* an option name of the variant, and a name the variant does not declare
CollidingName(v) ==
    IF v = "disk" THEN "disk_field_decay" ELSE "halo_growing_mode_only"

UndeclaredName == "extra_parameter"

\* the names the caller assigns to: an input of the derived parameters, a
\* declared parameter that is none, a mode, and the two names above
EditNames(v) ==
    IF v = "disk"
    THEN {"disk_height", "disk_radius", ModeName(1), CollidingName(v),
          UndeclaredName}
    ELSE {"halo_radius", "halo_ref_Bphi", CollidingName(v), UndeclaredName}

InputValues(v, k) ==
    LET units == parameter_units(v, MaxModes + 1)
    IN  IF k \in DOMAIN units
        THEN {Quantity(2, units[k]), Quantity(1, "s"), Number(3)}
             \cup (IF units[k] = "kpc" THEN {Quantity(1, "Mpc")} ELSE {})
             \cup (IF units[k] = "uG" THEN {Quantity(1, "mG")} ELSE {})
        ELSE {Number(3)}

NoCall ==
    [outcome |-> "none", invoked |-> 0, args |-> EmptyMap, field |-> None,
     cache_before |-> None, params_before |-> EmptyMap]

(***************************************************************************)
(* State machine.  last is the compute_field call that has just returned   *)
(* or raised: how it ended, what it handed to the generator, and the       *)
(* mapping and the cache it started from; it is NoCall once the caller     *)
(* has done something else.                                                *)
(***************************************************************************)
Init ==
    /\ pc = "new"
    /\ variant = "none"
    /\ keep_galmag_field = FALSE
    /\ number_of_modes = 0
    /\ parameters = EmptyMap
    /\ field_options = EmptyMap
    /\ galmag = None
    /\ gen_calls = 0
    /\ gen_returns = 0
    /\ last = NoCall
    /\ edits = 0
    /\ calls = 0

\* number_of_modes as GalMagDiskField.__init__ settles it; Unspecified when
\* max() is applied to an empty list (ValueError)
DiskNumberOfModes(nm, p) ==
    IF nm # Unspecified THEN nm
    ELSE LET found == {ModeIndex(k) : k \in {x \in DOMAIN p : IsModeKey(x)}}
         IN  IF found = {} THEN Unspecified ELSE SetMax(found)

\* GalMagDiskField(grid, parameters=p, keep_galmag_field=keep,
\*                 number_of_modes=nm)
ConstructDisk ==
    /\ pc = "new"
    /\ \E keep \in BOOLEAN, nm \in {Unspecified} \cup 0..MaxModes,
          p \in InitialMappings("disk") :
          IF DiskNumberOfModes(nm, p) = Unspecified
          THEN /\ pc' = "construction_failed"
               /\ UNCHANGED <<variant, keep_galmag_field, number_of_modes,
                              parameters, field_options>>
          ELSE /\ pc' = "built"
               /\ variant' = "disk"
               /\ keep_galmag_field' = keep
               /\ number_of_modes' = DiskNumberOfModes(nm, p)
               /\ parameters' = p
               /\ field_options' = DiskFieldOptions
    /\ galmag' = None
    /\ UNCHANGED <<gen_calls, gen_returns, last, edits, calls>>

\* GalMagHaloField(grid, parameters=p, keep_galmag_field=keep)
ConstructHalo ==
    /\ pc = "new"
    /\ \E keep \in BOOLEAN, p \in InitialMappings("halo") :
          /\ keep_galmag_field' = keep
          /\ parameters' = p
          /\ field_options' = HaloFieldOptions
    /\ pc' = "built"
    /\ variant' = "halo"
    /\ galmag' = None
    /\ UNCHANGED <<number_of_modes, gen_calls, gen_returns, last, edits,
                   calls>>

\* the caller stores a value in the mapping it shares with the adapter
SetParameter ==
    /\ pc = "built"
    /\ edits < MaxEdits
    /\ \E k \in EditNames(variant) : \E val \in InputValues(variant, k) :
          parameters' = Put(parameters, k, val)
    /\ edits' = edits + 1
    /\ last' = NoCall
    /\ UNCHANGED <<pc, variant, keep_galmag_field, number_of_modes,
                   field_options, galmag, gen_calls, gen_returns, calls>>

\* the caller removes a declared parameter or a mode from the mapping
DelParameter ==
    /\ pc = "built"
    /\ edits < MaxEdits
    /\ \E k \in DOMAIN parameters \cap parameter_names(variant, MaxModes + 1) :
          parameters' = Del(parameters, k)
    /\ edits' = edits + 1
    /\ last' = NoCall
    /\ UNCHANGED <<pc, variant, keep_galmag_field, number_of_modes,
                   field_options, galmag, gen_calls, gen_returns, calls>>

\* the adapter's compute_field(seed), dispatched on the class
compute_field(gen_ok) ==
    IF variant = "disk"
    THEN DiskComputeField(parameters, number_of_modes, field_options, galmag,
                          keep_galmag_field, gen_calls + 1, gen_ok)
    ELSE HaloComputeField(parameters, field_options, galmag,
                          keep_galmag_field, gen_calls + 1, gen_ok)

ComputeField ==
    /\ pc = "built"
    /\ calls < MaxCalls
    /\ \E gen_ok \in BOOLEAN :
          \E r \in {compute_field(gen_ok)} :
              /\ parameters' = r.parameters
              /\ galmag' = r.galmag
              /\ gen_calls' = gen_calls + r.invoked
              /\ gen_returns' =
                     gen_returns + (IF r.field.id = gen_calls + 1 THEN 1 ELSE 0)
              /\ last' = [outcome |-> r.outcome, invoked |-> r.invoked,
                          args |-> r.args, field |-> r.field,
                          cache_before |-> galmag,
                          params_before |-> parameters]
    /\ calls' = calls + 1
    /\ UNCHANGED <<pc, variant, keep_galmag_field, number_of_modes,
                   field_options, edits>>

Next ==
    \/ ConstructDisk
    \/ ConstructHalo
    \/ SetParameter
    \/ DelParameter
    \/ ComputeField

Spec == Init /\ [][Next]_vars

(***************************************************************************)
(* Vocabulary of the properties.                                           *)
(***************************************************************************)
\* a compute_field call has just returned or raised
Called == pc = "built" /\ last.outcome # "none"

\* that call reached get_B_field
ReachedGenerator == Called /\ last.invoked = 1

Inputs(v) == IF v = "disk" THEN DiskInputs ELSE HaloInputs

Temporaries(v) == IF v = "disk" THEN DiskTemporaries ELSE HaloTemporaries

\* PARAMETER_NAMES of the class
RequiredNames(v) ==
    IF v = "disk"
    THEN Range(DISK_PARAMETER_NAMES)
    ELSE Range(HALO_PARAMETER_NAMES)

\* the number that states the value val in the declared unit u: the declared
\* units are kpc, km/s, cm2/s, 1/s and uG; 1 Mpc = 1000 kpc, 1 mG = 1000 uG
InDeclaredUnit(val) ==
    IF val.kind = "quantity" /\ val.unit \in {"Mpc", "mG"}
    THEN 1000 * val.n
    ELSE val.n

\* a disk mode_i (i <= number_of_modes) that is no field strength
BadMode(p) ==
    /\ variant = "disk"
    /\ \E i \in 1..number_of_modes :
          /\ ModeName(i) \in DOMAIN p
          /\ p[ModeName(i)].kind = "quantity"
          /\ p[ModeName(i)].unit \notin {"uG", "mG"}

TypeOK ==
    /\ pc \in {"new", "built", "construction_failed"}
    /\ variant \in {"none", "disk", "halo"}
    /\ keep_galmag_field \in BOOLEAN
    /\ number_of_modes \in 0..(MaxModes + 1)
    /\ calls \in 0..MaxCalls
    /\ edits \in 0..MaxEdits
    /\ gen_calls \in 0..calls
    /\ gen_returns \in 0..gen_calls
    /\ galmag.id \in 0..gen_calls
    /\ last.outcome \in {"none", "ok", "KeyError", "UnitConversionError",
                         "AttributeError", "GeneratorError"}

(***************************************************************************)
(* C1.  The temporary derived entries compute_field injects into the       *)
(* parameter mapping are absent from the mapping after the call returns,   *)
(* whether the call succeeds or raises.                                    *)
(***************************************************************************)
C1_TemporariesRemoved ==
    Called => DOMAIN parameters \cap Temporaries(variant) = {}

(***************************************************************************)
(* C2.  On a keep-enabled instance whose cache is populated, every         *)
(* compute_field call returns a field built from the identical cached      *)
(* native object whatever values the parameters have been given since,     *)
(* and the generator is not invoked.  (The inputs of the derived           *)
(* parameters are all present: only values have changed.)                  *)
(***************************************************************************)
C2_StaleCacheWins ==
    (/\ Called
     /\ keep_galmag_field
     /\ last.cache_before # None
     /\ Inputs(variant) \subseteq DOMAIN last.params_before)
    => (/\ last.outcome = "ok"
        /\ last.field = last.cache_before
        /\ last.invoked = 0)

(***************************************************************************)
(* C3.  A compute_field call with a mapping that lacks a name of           *)
(* PARAMETER_NAMES raises a missing-parameter failure and does not invoke  *)
(* get_B_field.  (No mode_i of the mapping is ill-formed, so that nothing  *)
(* else fails first.)                                                      *)
(***************************************************************************)
C3_MissingRequiredRaises ==
    (/\ Called
     /\ ~(RequiredNames(variant) \subseteq DOMAIN last.params_before)
     /\ ~BadMode(last.params_before))
    => (last.outcome = "KeyError" /\ last.invoked = 0)

(***************************************************************************)
(* C4.  In every call that reaches the generator, every name of the        *)
(* options mapping is passed with the option's value, also when the        *)
(* caller's mapping holds an entry of that name; the options mapping is    *)
(* the one recorded at construction.                                       *)
(***************************************************************************)
C4_OptionsWin ==
    /\ pc = "built" =>
          field_options =
              (IF variant = "disk" THEN DiskFieldOptions ELSE HaloFieldOptions)
    /\ ReachedGenerator =>
          \A k \in DOMAIN field_options :
              k \in DOMAIN last.args /\ last.args[k] = field_options[k]

C4_Witness ==
    /\ ReachedGenerator
    /\ CollidingName(variant) \in DOMAIN last.params_before
    /\ last.params_before[CollidingName(variant)]
          # field_options[CollidingName(variant)]

(***************************************************************************)
(* C5.  The caller's entries outside the declared names, the options and   *)
(* the temporary names.                                                    *)
(***************************************************************************)
Foreign(p) ==
    DOMAIN p \ (parameter_names(variant, number_of_modes)
                  \cup DOMAIN field_options \cup Temporaries(variant))

\* C5 as stated: an entry of the caller's mapping outside the declared
\* parameter names is never among the keys handed to the generator.
C5_UndeclaredIgnored ==
    ReachedGenerator =>
        \A k \in Foreign(last.params_before) : k \notin DOMAIN last.args

\* C5 as amended: an entry of the caller's mapping outside the declared
\* parameter names (and no option or temporary name) is not converted; it
\* is handed to the generator unchanged, under its own name.
C5_UndeclaredPassedThrough ==
    ReachedGenerator =>
        \A k \in Foreign(last.params_before) :
            k \in DOMAIN last.args /\ last.args[k] = last.params_before[k]

C5_Witness ==
    /\ ReachedGenerator
    /\ UndeclaredName \in DOMAIN last.params_before
    /\ variant = "halo"

(***************************************************************************)
(* C6.  Construction of a disk or halo adapter never fails because of a    *)
(* parameter absent from the mapping, also with no mode_i entry and        *)
(* number_of_modes unspecified.                                            *)
(***************************************************************************)
C6_ConstructionSucceeds == pc # "construction_failed"

(***************************************************************************)
(* C7.  The disk_modes_normalization array handed to the generator has     *)
(* number_of_modes entries; entry i is the value of mode_i in microgauss   *)
(* when the mapping holds mode_i, and 0 when it does not.                  *)
(***************************************************************************)
C7_ModeNormalization ==
    (ReachedGenerator /\ variant = "disk") =>
        /\ "disk_modes_normalization" \in DOMAIN last.args
        /\ LET norm == last.args["disk_modes_normalization"]
               p == last.params_before
           IN  /\ norm.kind = "array"
               /\ DOMAIN norm.data = 1..number_of_modes
               /\ \A i \in 1..number_of_modes :
                     norm.data[i] =
                         IF ModeName(i) \in DOMAIN p
                         THEN InDeclaredUnit(p[ModeName(i)])
                         ELSE 0

\* a missing mode below a present one in milligauss, and a mode beyond
C7_Witness ==
    /\ ReachedGenerator
    /\ variant = "disk"
    /\ number_of_modes = MaxModes
    /\ last.args["disk_modes_normalization"].data[1] = 1000
    /\ ModeName(MaxModes) \notin DOMAIN last.params_before
    /\ ModeName(MaxModes + 1) \in DOMAIN last.params_before

(***************************************************************************)
(* C8.  The cache is empty after construction; it is non-empty only if the *)
(* keep flag is set and an earlier call got a native field from the        *)
(* generator; a call that fails leaves the cache as it was.                *)
(***************************************************************************)
C8_CacheDiscipline ==
    /\ (pc = "built" /\ calls = 0) => galmag = None
    /\ galmag # None =>
          /\ keep_galmag_field
          /\ gen_returns >= 1
          /\ galmag.id \in 1..gen_calls
    /\ (Called /\ last.outcome # "ok") => galmag = last.cache_before

\* a populated cache that a failing call has left alone
C8_Witness ==
    /\ Called
    /\ last.outcome \notin {"ok", "none"}
    /\ galmag # None
    /\ galmag = last.cache_before

(***************************************************************************)
(* C9.  On a keep-disabled instance a call that does not fail earlier      *)
(* invokes the generator exactly once, with a mapping built from the       *)
(* parameter values of that call; the native field it returns is the one   *)
(* that invocation made.                                                   *)
(***************************************************************************)
LengthName(v) == IF v = "disk" THEN "disk_height" ELSE "halo_radius"
AlphaName(v) == IF v = "disk" THEN "disk_alpha_effect" ELSE "halo_alpha_effect"
BetaName(v) ==
    IF v = "disk" THEN "disk_turbulent_diffusivity"
    ELSE "halo_turbulent_diffusivity"
InductionName(v) ==
    IF v = "disk" THEN "disk_turbulent_induction"
    ELSE "halo_turbulent_induction"

\* every input of the derived parameters is there and every declared entry
\* is a Quantity of the declared dimension
WellFormed(p) ==
    /\ Inputs(variant) \subseteq DOMAIN p
    /\ \A k \in DOMAIN p \cap DOMAIN parameter_units(variant, number_of_modes) :
          /\ p[k].kind = "quantity"
          /\ UnitDim(p[k].unit)
                = UnitDim(parameter_units(variant, number_of_modes)[k])

C9_RecomputedEachCall ==
    (Called /\ ~keep_galmag_field) =>
        LET p == last.params_before
        IN  /\ last.cache_before = None
            /\ last.invoked = IF last.outcome \in {"ok", "GeneratorError"}
                              THEN 1 ELSE 0
            /\ WellFormed(p) => last.invoked = 1
            /\ last.outcome = "ok" => last.field.id = gen_calls
            /\ last.invoked = 1 =>
                  /\ \A k \in DOMAIN p \cap
                              DOMAIN parameter_units(variant, number_of_modes) :
                        /\ last.args[k].kind = "number"
                        /\ last.args[k].n = InDeclaredUnit(p[k])
                  /\ LET f == last.args[InductionName(variant)].data
                         l == p[LengthName(variant)]
                         a == p[AlphaName(variant)]
                         b == p[BetaName(variant)]
                     IN  /\ f[1] * b.n = f[2] * l.n * a.n
                         /\ f[3] = UnitSize(l.unit)[1] + UnitSize(a.unit)[1]
                                     - UnitSize(b.unit)[1]

\* a second invocation, after the caller gave the length another unit
C9_Witness ==
    /\ Called
    /\ ~keep_galmag_field
    /\ last.outcome = "ok"
    /\ gen_calls = 2
    /\ last.params_before[LengthName(variant)] = Quantity(1, "Mpc")
    /\ last.args[LengthName(variant)].n = 1000

====
